---- MODULE Spec2Model ----
(***************************************************************************)
(* A model of the perceptron engine: NeuronLayer (perceptron_layer.hpp)    *)
(* and Perceptron (perceptron.hpp).  Layers are records kept in creation   *)
(* order; a layer pointer is the layer's index in that sequence and 0 is   *)
(* nullptr.  C arrays are 0-based, the sequences here are 1-based: element *)
(* k of an array is element k+1 of the sequence.  An empty sequence stands *)
(* for a null pointer (host arrays) or a null cl::Buffer (device side).    *)
(* Scalars (cl_float) are abstracted to small integers; storage that was   *)
(* allocated and never written holds Uninit, and every computation that    *)
(* reads Uninit yields Uninit.                                             *)
(***************************************************************************)
EXTENDS Integers, Sequences, FiniteSets, TLC

\* ---------------------------------------------------------------- bounds
MaxLayers == 3
MaxOps == 2
MaxShortIter == 1
MaxIter == 100

\* ------------------------------------------------------ program constants
CheckEvery == 100
ExampleCycle == 4
DefaultConfidence == 80

Uninit == 9

\* the layer sizes passed to createLayer and the seeds random_device yields
Sizes == {1, 2}

Seeds == {0, 1}

\* ---------------------------------------------------------------- helpers
RECURSIVE SumSeq(_)
SumSeq(s) == IF s = <<>> THEN 0 ELSE Head(s) + SumSeq(Tail(s))

Defined(s) == \A k \in 1..Len(s) : s[k] # Uninit

Fill(n, x) == [k \in 1..n |-> x]

\* The first n elements of the array at v, as a transfer of n elements reads
\* them: what lies behind the end of v is storage that was never written.
ReadArray(v, n) == [k \in 1..n |-> IF k <= Len(v) THEN v[k] ELSE Uninit]

\* dst with its first Len(src) elements overwritten by src; elements of src
\* behind the end of dst do not change the length dst was allocated with
Overwrite(dst, src) == [k \in 1..Len(dst) |-> IF k <= Len(src) THEN src[k] ELSE dst[k]]

\* ------------------------------------------------------------ NeuronLayer
\* One draw sequence of std::mt19937 seeded from std::random_device: the
\* k-th draw of uniform_real_distribution(-0.5, 0.5), in abstract units.
RandW(seed, k) == ((seed + k) % 3) - 1

\* a faulty variant: the matrix sized to the columns the forward kernel uses
setOutputLayer_weightCount_noBiasColumn(m_size, out_size) == m_size * (out_size - 1)

\* the number of elements NeuronLayer::setOutputLayer allocates for weights
setOutputLayer_weightCount(m_size, out_size) == m_size * out_size

\* NeuronLayer::setOutputLayer: link l to the layer o (0: nullptr) of size out_size
setOutputLayer(l, o, out_size) ==
    IF o # 0
    THEN [l EXCEPT !.out_layer = o,
                   !.weights = Fill(setOutputLayer_weightCount(l.size, out_size), Uninit),
                   !.out_size = out_size]
    ELSE [l EXCEPT !.out_layer = o, !.out_size = 0]

\* a faulty variant: the new layer is not linked back to the one before it
setInputLayer_notLinked(l, i) == l

\* NeuronLayer::setInputLayer
setInputLayer(l, i) == [l EXCEPT !.in_layer = i]

init_biasValue == 1

\* NeuronLayer::NeuronLayer(in_s, queue) and init(nullptr, nullptr)
NewLayer(in_s) ==
    setOutputLayer(
        [size |-> in_s + 1, out_size |-> 0, in_layer |-> 0, out_layer |-> 0,
         values |-> [k \in 1..(in_s + 1) |-> IF k = in_s + 1 THEN init_biasValue ELSE 0],
         weights |-> <<>>, buf_values |-> <<>>, buf_weights |-> <<>>],
        0, 0)

\* a faulty variant: the guard lets a layer without a next layer through
initRandomWeights_linked_unguarded(l) == TRUE

\* the guard of NeuronLayer::initRandomWeights
initRandomWeights_linked(l) == l.out_size # 0

\* NeuronLayer::initRandomWeights past its guard
initRandomWeights(l, seed) ==
    [l EXCEPT !.weights = Overwrite(@, [k \in 1..(l.size * l.out_size) |-> RandW(seed, k)])]

getNbWeights(l) == l.size * l.out_size

\* a faulty variant: a list shorter than the layer is let through
setValues_sizeOk_atMost(l, vals) == Len(vals) <= l.size - 1

\* a faulty variant: the setter writes through to the device buffer
setValues_writeThrough(l, vals) ==
    [l EXCEPT !.values = [k \in 1..l.size |->
                             IF k = l.size THEN 1
                             ELSE IF k <= Len(vals) THEN vals[k] ELSE l.values[k]],
              !.buf_values = IF @ = <<>> THEN @
                             ELSE [k \in 1..Len(@) |->
                                     IF k <= Len(vals) THEN vals[k] ELSE @[k]]]

\* the guard of NeuronLayer::setValues
setValues_sizeOk(l, vals) == Len(vals) = l.size - 1

\* NeuronLayer::setValues past its guard (both overloads have the same body)
setValues(l, vals) ==
    [l EXCEPT !.values = [k \in 1..l.size |->
                             IF k = l.size THEN 1
                             ELSE IF k <= Len(vals) THEN vals[k] ELSE l.values[k]]]

\* NeuronLayer::setWeights: the condition under which it throws
setWeights_throws(l, weights_list) ==
    l.out_layer # 0 /\ Len(weights_list) # l.size * (l.out_size - 1)

\* NeuronLayer::setWeights past its guard, on a layer whose weights exist
setWeights(l, weights_list) ==
    [l EXCEPT !.weights = Overwrite(@, weights_list)]

\* NeuronLayer::createBuffers: two fresh device buffers; one of 0 bytes is
\* refused by the device and leaves a null cl::Buffer
createBuffers(l) ==
    [l EXCEPT !.buf_values = Fill(l.size, Uninit),
              !.buf_weights = Fill(l.size * l.out_size, Uninit)]

\* a blocking transfer into (out of) a null cl::Buffer fails and moves nothing
WriteBuffer(buf, host, n) == IF buf = <<>> THEN buf ELSE Overwrite(buf, ReadArray(host, n))

ReadBuffer(host, buf, n) == IF buf = <<>> THEN host ELSE Overwrite(host, ReadArray(buf, n))

\* a faulty variant: the stage of the input pushes the weights as well
uploadInputValues_withWeights(l) ==
    [l EXCEPT !.buf_values = WriteBuffer(@, l.values, l.size),
              !.buf_weights = WriteBuffer(@, l.weights, l.out_size * l.size)]

\* NeuronLayer::uploadInputValues
uploadInputValues(l) ==
    [l EXCEPT !.buf_values = WriteBuffer(@, l.values, l.size)]

enqueueWriteBuffers(l) ==
    [l EXCEPT !.buf_values = WriteBuffer(@, l.values, l.size),
              !.buf_weights = WriteBuffer(@, l.weights, l.out_size * l.size)]

enqueueWriteInputBuffer(l, input_values) ==
    [l EXCEPT !.buf_values = WriteBuffer(@, input_values, l.size)]

enqueueReadBuffers(l) ==
    [l EXCEPT !.values = ReadBuffer(@, l.buf_values, l.size),
              !.weights = ReadBuffer(@, l.buf_weights, l.size * l.out_size)]

\* NeuronLayer::enqueueReadValues is called by Perceptron and not defined in
\* perceptron_layer.hpp: the fetch of the values alone
enqueueReadValues(l) ==
    [l EXCEPT !.values = ReadBuffer(@, l.buf_values, l.size)]

\* ------------------------------------------------- device kernels and queue
(* The four kernels of perceptron_layer.cl are not part of the sources; they *)
(* are modelled from their argument contract: the forward kernel computes   *)
(* arg1 activations from arg0 inputs with the weights laid out row-major by *)
(* source neuron, the error kernels write size-1 deltas, the update kernel  *)
(* changes previous.size * (size-1) weights in place.                       *)
\* the activation of a sum v (x, evaluated once): Uninit of Uninit
Act(x) ==
    CHOOSE r \in {IF v = Uninit THEN Uninit ELSE IF v >= 1 THEN 1 ELSE 0 : v \in {x}} : TRUE

\* a delta or a weight v (x, evaluated once) kept in range: Uninit of Uninit
Clamp(x) ==
    CHOOSE r \in {IF v = Uninit THEN Uninit
                  ELSE IF v > 1 THEN 1 ELSE IF v < -1 THEN -1 ELSE v : v \in {x}} : TRUE

\* sum of a[k] * b[k] over k, Uninit as soon as one operand is; u and v
\* are a and b, evaluated once
Dot(a, b) ==
    CHOOSE r \in {IF Defined(u) /\ Defined(v)
                  THEN SumSeq([k \in 1..Len(u) |-> u[k] * v[k]]) ELSE Uninit :
                  u \in {a}, v \in {b}} : TRUE

\* kernel "perceptron": activation j (1..out_count) of the next layer
ForwardKernel(in_size, out_count, values, weights, j) ==
    Act(Dot(ReadArray(values, in_size),
            [i \in 1..in_size |->
                ReadArray(weights, in_size * out_count)[(i - 1) * out_count + j]]))

\* kernel "train output layer": delta j of the output layer
OutputErrorKernel(values, expected, j) ==
    IF ReadArray(values, j)[j] = Uninit \/ ReadArray(expected, j)[j] = Uninit THEN Uninit
    ELSE ReadArray(expected, j)[j] - ReadArray(values, j)[j]

\* kernel "train backpropagate": delta n (1..size-1) of a hidden layer from the
\* deltas of the out_size-1 computed neurons of its successor
BackpropagateKernel(in_size, out_size, weights, succ_delta, n) ==
    Clamp(Dot([j \in 1..(out_size - 1) |->
                  ReadArray(weights, in_size * out_size)[(n - 1) * (out_size - 1) + j]],
              ReadArray(succ_delta, out_size - 1)))

\* kernel "train update weights": the new weight from neuron r of the previous
\* layer to neuron j of this one
UpdateWeightKernel(prev_values, delta, w, r, j) ==
    IF w = Uninit \/ ReadArray(prev_values, r)[r] = Uninit \/ ReadArray(delta, j)[j] = Uninit
    THEN Uninit
    ELSE Clamp(w + prev_values[r] * delta[j])

\* A queued command: kernel k dispatched by layer `layer`; a and b are the
\* positions in delta_bufs of the delta buffer written and of the one read.
Cmd(k, layer, a, b) == [k |-> k, layer |-> layer, a |-> a, b |-> b]

\* whether every buffer the command names exists
CmdBuffersExist(M, c) ==
    LET l == M.ls[c.layer] IN
    CASE c.k = "forward" ->
            l.buf_values # <<>> /\ l.buf_weights # <<>> /\ M.ls[l.out_layer].buf_values # <<>>
      [] c.k = "outputError" -> l.buf_values # <<>> /\ M.tob # <<>>
      [] c.k = "backpropagate" -> l.buf_values # <<>> /\ l.buf_weights # <<>>
      [] c.k = "updateWeights" ->
            M.ls[l.in_layer].buf_values # <<>> /\ M.ls[l.in_layer].buf_weights # <<>>
      [] OTHER -> FALSE

\* a faulty variant: the backpropagation is dispatched over the whole layer,
\* bias included
backpropagate_range_withBias(l) == l.size

\* NDRange of the dispatch
forward_range(l) == l.out_size - 1

outputError_range(l) == l.size - 1

backpropagate_range(l) == l.size - 1

updateWeights_range(l, prev) == (l.size - 1) * prev.size

\* the effect of one command on the device memory, when it executes
ExecKernel(M, c) ==
    LET l == M.ls[c.layer] IN
    IF ~CmdBuffersExist(M, c) THEN M
    ELSE CASE c.k = "forward" ->
            LET o == l.out_layer
                n == forward_range(l)
            IN [M EXCEPT !.ls[o].buf_values =
                    [j \in 1..Len(@) |->
                        IF j <= n THEN ForwardKernel(l.size, l.out_size - 1, l.buf_values, l.buf_weights, j)
                        ELSE @[j]]]
      [] c.k = "outputError" ->
            [M EXCEPT !.db[c.a] =
                    [j \in 1..Len(@) |->
                        IF j <= outputError_range(l) THEN OutputErrorKernel(l.buf_values, M.tob, j)
                        ELSE @[j]]]
      [] c.k = "backpropagate" ->
            [M EXCEPT !.db[c.a] =
                    [n \in 1..Len(@) |->
                        IF n <= backpropagate_range(l)
                        THEN BackpropagateKernel(l.size, M.ls[l.out_layer].size, l.buf_weights, M.db[c.b], n)
                        ELSE @[n]]]
      [] c.k = "updateWeights" ->
            LET p == l.in_layer
                prev == M.ls[p]
                cols == l.size - 1
            IN [M EXCEPT !.ls[p].buf_weights =
                    [k \in 1..Len(@) |->
                        IF k <= updateWeights_range(l, prev)
                        THEN UpdateWeightKernel(prev.buf_values, M.db[c.a], @[k],
                                                ((k - 1) \div cols) + 1, ((k - 1) % cols) + 1)
                        ELSE @[k]]]
      [] OTHER -> M

RECURSIVE ExecAll(_, _)
ExecAll(M, q) == IF q = <<>> THEN M ELSE ExecAll(ExecKernel(M, Head(q)), Tail(q))

LogEntry(ev, c, ok) == [ev |-> ev, k |-> c.k, layer |-> c.layer, a |-> c.a, b |-> c.b, ok |-> ok]

\* cl::CommandQueue::enqueueNDRangeKernel: the command joins the in-order queue
EnqueueNDRangeKernel(M, c) ==
    [M EXCEPT !.queue = Append(@, c),
              !.log = Append(@, LogEntry("enqueue", c, CmdBuffersExist(M, c)))]

\* cl::CommandQueue::finish: every queued command has executed on return
finish(M) ==
    [ExecAll(M, M.queue) EXCEPT !.queue = <<>>,
                                !.log = Append(@, LogEntry("finish", Cmd("", 0, 0, 0), TRUE))]

\* a faulty variant: the dispatch is not followed by finish()
enqueueRun_noFinish(M, i) == EnqueueNDRangeKernel(M, Cmd("forward", i, 0, 0))

\* NeuronLayer::enqueueRun on a layer that has a next layer
enqueueRun(M, i) == finish(EnqueueNDRangeKernel(M, Cmd("forward", i, 0, 0)))

\* NeuronLayer::enqueueTrainOutputLayer: delta buffer a receives the deltas
enqueueTrainOutputLayer(M, i, a) == finish(EnqueueNDRangeKernel(M, Cmd("outputError", i, a, 0)))

\* a faulty variant: the backpropagation is dispatched and not waited for
enqueueTrainBackpropagate_noFinish(M, i, a, b) ==
    EnqueueNDRangeKernel(M, Cmd("backpropagate", i, a, b))

\* NeuronLayer::enqueueTrainBackpropagate on a layer that has a next layer
enqueueTrainBackpropagate(M, i, a, b) ==
    finish(EnqueueNDRangeKernel(M, Cmd("backpropagate", i, a, b)))

\* a faulty variant: the update is handed the delta buffer of the layer before
enqueueTrainUpdateWeights_prevDelta(M, i, a) ==
    finish(EnqueueNDRangeKernel(M, Cmd("updateWeights", i, a - 1, 0)))

\* a faulty variant: the update is dispatched and not waited for
enqueueTrainUpdateWeights_noFinish(M, i, a) ==
    EnqueueNDRangeKernel(M, Cmd("updateWeights", i, a, 0))

\* NeuronLayer::enqueueTrainUpdateWeights on a layer that has a previous layer
enqueueTrainUpdateWeights(M, i, a) ==
    finish(EnqueueNDRangeKernel(M, Cmd("updateWeights", i, a, 0)))

\* a blocking stage or fetch of layer i, as the log records it
Transfer(ev, what, i, ok) == LogEntry(ev, Cmd(what, i, 0, 0), ok)

\* ------------------------------------------------------------------ state
VARIABLES
    layers,            \* the NeuronLayer objects, in creation order
    mFirstLayer,       \* Perceptron::mFirstLayer (0: nullptr)
    mCurrentLayer,     \* Perceptron::mCurrentLayer (0: nullptr)
    pc,                \* where the single thread of control stands
    err,               \* what the last call threw ("none": it returned normally)
    call,              \* the last call of the public interface and its argument
    nOps,              \* calls made so far, createLayer apart
    queue,             \* the device queue: commands enqueued and not yet executed
    devLog,            \* the device operations of the current call or training iteration
    delta_bufs,        \* train: the delta buffers, one per layer
    training_out_buf,  \* train: the buffer of the expected output
    t                  \* the locals of run and train

vars == <<layers, mFirstLayer, mCurrentLayer, pc, err, call, nOps, queue, devLog,
          delta_bufs, training_out_buf, t>>

T0 == [layer |-> 0, ret |-> "idle", runStart |-> 0, train |-> 0, iterations |-> 0,
       max_iterations |-> 0, confidence |-> 0, tin |-> <<>>, tout |-> <<>>,
       hasConverged |-> FALSE, training_in |-> <<>>, training_out |-> <<>>,
       i |-> 0, current_buf_num |-> 0, outcome |-> "none"]

Call(op, layer, n) == [op |-> op, layer |-> layer, n |-> n]

\* Perceptron::Perceptron
Init ==
    /\ layers = <<>>
    /\ mFirstLayer = 0
    /\ mCurrentLayer = 0
    /\ pc = "idle"
    /\ err = "none"
    /\ call = Call("new", 0, 0)
    /\ nOps = 0
    /\ queue = <<>>
    /\ devLog = <<>>
    /\ delta_bufs = <<>>
    /\ training_out_buf = <<>>
    /\ t = T0

Mem == [ls |-> layers, db |-> delta_bufs, tob |-> training_out_buf, queue |-> queue,
        log |-> devLog]

SetMem(M) ==
    /\ layers' = M.ls
    /\ delta_bufs' = M.db
    /\ training_out_buf' = M.tob
    /\ queue' = M.queue
    /\ devLog' = M.log

\* a call that is not run or train has returned (e = "none") or thrown e
Returned(c, e, ls, log) ==
    /\ layers' = ls
    /\ devLog' = log
    /\ call' = c
    /\ err' = e
    /\ pc' = "idle"
    /\ nOps' = nOps + 1
    /\ t' = T0
    /\ UNCHANGED <<queue, delta_bufs, training_out_buf>>

\* the process has died on an access through a null or dangling pointer
Aborted(c) ==
    /\ call' = c
    /\ pc' = "aborted"
    /\ nOps' = nOps + 1
    /\ UNCHANGED <<layers, err, queue, devLog, delta_bufs, training_out_buf, t>>

CanCall == pc = "idle" /\ nOps < MaxOps

\* the two outcomes explored of a store or call through a null pointer:
\* the process dies, or the access has no effect and execution goes on
NullAccessOutcomes == {"abort", "ignored"}

\* ------------------------------------------------------ argument families
PatternList(n, c) == [k \in 1..n |-> (k + c) % 2]

ValueLists(l) == {PatternList(n, c) : n \in {l.size - 2, l.size - 1, l.size}, c \in 0..1}

WeightLists(l) ==
    {Fill(n, c) : n \in (IF l.out_layer = 0 THEN {0, 1}
                         ELSE {0, l.size * (l.out_size - 1), l.size * l.out_size}),
                  c \in 0..1}

\* count lists, list k sized for the k-th layer of the chain: to the weights
\* the forward kernel uses ("used") or to the allocated matrix ("alloc")
NetWeightLists(count, mode, c) ==
    [k \in 1..count |->
        IF k > Len(layers) \/ layers[k].out_layer = 0 THEN Fill(1, (c + k) % 2)
        ELSE Fill(IF mode = "used" THEN layers[k].size * (layers[k].out_size - 1)
                  ELSE layers[k].size * layers[k].out_size, (c + k) % 2)]

\* ------------------------------------------------------------- Perceptron
\* Perceptron::createLayer on the perceptron P = [layers, mFirstLayer, mCurrentLayer]
Perceptron_createLayer(P, size, seed) ==
    LET n == Len(P.layers) + 1
        neuronLayer == NewLayer(size)
    IN IF P.mFirstLayer = 0
       THEN [layers |-> Append(P.layers, neuronLayer), mFirstLayer |-> n, mCurrentLayer |-> n]
       ELSE [layers |-> Append(
                 [P.layers EXCEPT ![P.mCurrentLayer] =
                     createBuffers(initRandomWeights(
                         setOutputLayer(@, n, neuronLayer.size), seed))],
                 setInputLayer(neuronLayer, P.mCurrentLayer)),
             mFirstLayer |-> P.mFirstLayer,
             mCurrentLayer |-> n]

This == [layers |-> layers, mFirstLayer |-> mFirstLayer, mCurrentLayer |-> mCurrentLayer]

createLayer(size, seed) ==
    /\ pc = "idle"
    /\ Len(layers) < MaxLayers
    /\ LET P == Perceptron_createLayer(This, size, seed)
       IN /\ layers' = P.layers
          /\ mFirstLayer' = P.mFirstLayer
          /\ mCurrentLayer' = P.mCurrentLayer
    /\ call' = Call("createLayer", Len(layers) + 1, size)
    /\ err' = "none"
    /\ t' = T0
    /\ devLog' = <<>>
    /\ UNCHANGED <<pc, nOps, queue, delta_bufs, training_out_buf>>

\* NeuronLayer::setValues called on layer i
Layer_setValues(i, vals) ==
    /\ CanCall
    /\ IF setValues_sizeOk(layers[i], vals)
       THEN Returned(Call("Layer.setValues", i, Len(vals)), "none",
                     [layers EXCEPT ![i] = setValues(@, vals)], <<>>)
       ELSE Returned(Call("Layer.setValues", i, Len(vals)), "size_mismatch", layers, <<>>)
    /\ UNCHANGED <<mFirstLayer, mCurrentLayer>>

\* NeuronLayer::setWeights called on layer i
Layer_setWeights(i, weights_list, ub) ==
    /\ CanCall
    /\ IF setWeights_throws(layers[i], weights_list)
       THEN Returned(Call("Layer.setWeights", i, Len(weights_list)), "size_mismatch", layers, <<>>)
       ELSE IF layers[i].weights = <<>> /\ weights_list # <<>>
       THEN IF ub = "abort"
            THEN Aborted(Call("Layer.setWeights", i, Len(weights_list)))
            ELSE Returned(Call("Layer.setWeights", i, Len(weights_list)), "none", layers, <<>>)
       ELSE Returned(Call("Layer.setWeights", i, Len(weights_list)), "none",
                     [layers EXCEPT ![i] = setWeights(@, weights_list)], <<>>)
    /\ UNCHANGED <<mFirstLayer, mCurrentLayer>>

\* the stage of layer i's two buffers, as the log records it
StageEntries(ls, i) ==
    <<Transfer("write", "values", i, ls[i].buf_values # <<>>),
      Transfer("write", "weights", i, ls[i].buf_weights # <<>>)>>

\* Perceptron::setWeights from layer `layer` on, with the lists still to assign
RECURSIVE Perceptron_setWeights(_, _, _, _, _)
Perceptron_setWeights(ls, layer, weights, log, ub) ==
    IF weights = <<>> THEN [ls |-> ls, log |-> log, err |-> "none"]
    ELSE IF layer = 0 THEN [ls |-> ls, log |-> log, err |-> "null_layer"]
    ELSE IF setWeights_throws(ls[layer], Head(weights))
    THEN [ls |-> ls, log |-> log, err |-> "size_mismatch"]
    ELSE IF ls[layer].weights = <<>> /\ Head(weights) # <<>> /\ ub = "abort"
    THEN [ls |-> ls, log |-> log, err |-> "abort"]
    ELSE LET set == IF ls[layer].weights = <<>> THEN ls[layer]
                    ELSE setWeights(ls[layer], Head(weights))
         IN Perceptron_setWeights([ls EXCEPT ![layer] = enqueueWriteBuffers(set)],
                                  ls[layer].out_layer, Tail(weights),
                                  log \o StageEntries(ls, layer), ub)

Net_setWeights(weights, ub) ==
    /\ CanCall
    /\ LET r == Perceptron_setWeights(layers, mFirstLayer, weights, <<>>, ub)
           c == Call("setWeights", 0, Len(weights))
       IN IF r.err = "abort" THEN Aborted(c) ELSE Returned(c, r.err, r.ls, r.log)
    /\ UNCHANGED <<mFirstLayer, mCurrentLayer>>

\* Perceptron::setInputValues
setInputValues(vals) ==
    /\ CanCall
    /\ LET c == Call("setInputValues", mFirstLayer, Len(vals)) IN
       IF mFirstLayer = 0 THEN Returned(c, "null_layer", layers, <<>>)
       ELSE IF ~setValues_sizeOk(layers[mFirstLayer], vals)
       THEN Returned(c, "size_mismatch", layers, <<>>)
       ELSE Returned(c, "none",
                     [layers EXCEPT ![mFirstLayer] = uploadInputValues(setValues(@, vals))],
                     <<Transfer("write", "values", mFirstLayer,
                                layers[mFirstLayer].buf_values # <<>>)>>)
    /\ UNCHANGED <<mFirstLayer, mCurrentLayer>>

\* the loop of Perceptron::upload from layer `layer` on
RECURSIVE upload_loop(_, _, _)
upload_loop(ls, layer, log) ==
    IF layer = 0 THEN [ls |-> ls, log |-> log]
    ELSE upload_loop([ls EXCEPT ![layer] = enqueueWriteBuffers(@)], ls[layer].out_layer,
                     log \o StageEntries(ls, layer))

\* a faulty variant: the buffers of the last layer are not created
Perceptron_upload_noLastBuffers(ls, first, current) == upload_loop(ls, first, <<>>)

\* Perceptron::upload on a chain that has a layer
Perceptron_upload(ls, first, current) ==
    upload_loop([ls EXCEPT ![current] = createBuffers(@)], first, <<>>)

upload(ub) ==
    /\ CanCall
    /\ IF mCurrentLayer = 0
       THEN IF ub = "abort" THEN Aborted(Call("upload", 0, 0))
            ELSE Returned(Call("upload", 0, 0), "none", layers, <<>>)
       ELSE LET r == Perceptron_upload(layers, mFirstLayer, mCurrentLayer)
            IN Returned(Call("upload", mCurrentLayer, 0), "none", r.ls, r.log)
    /\ UNCHANGED <<mFirstLayer, mCurrentLayer>>

FetchEntries(ls, i) ==
    <<Transfer("read", "values", i, ls[i].buf_values # <<>>),
      Transfer("read", "weights", i, ls[i].buf_weights # <<>>)>>

RECURSIVE enqueueReadAllBuffers_loop(_, _, _)
enqueueReadAllBuffers_loop(ls, layer, log) ==
    IF layer = 0 THEN [ls |-> ls, log |-> log]
    ELSE enqueueReadAllBuffers_loop([ls EXCEPT ![layer] = enqueueReadBuffers(@)],
                                    ls[layer].out_layer, log \o FetchEntries(ls, layer))

\* Perceptron::enqueueReadAllBuffers
enqueueReadAllBuffers ==
    /\ CanCall
    /\ LET r == enqueueReadAllBuffers_loop(layers, mFirstLayer, <<>>)
       IN Returned(Call("enqueueReadAllBuffers", 0, 0), "none", r.ls, r.log)
    /\ UNCHANGED <<mFirstLayer, mCurrentLayer>>

\* NeuronLayer::enqueueWriteInputBuffer called on layer i
Layer_enqueueWriteInputBuffer(i, input_values) ==
    /\ CanCall
    /\ Returned(Call("Layer.enqueueWriteInputBuffer", i, Len(input_values)), "none",
                [layers EXCEPT ![i] = enqueueWriteInputBuffer(@, input_values)],
                <<Transfer("write", "values", i, layers[i].buf_values # <<>>)>>)
    /\ UNCHANGED <<mFirstLayer, mCurrentLayer>>

\* NeuronLayer::uploadInputValues called on layer i
Layer_uploadInputValues(i) ==
    /\ CanCall
    /\ Returned(Call("Layer.uploadInputValues", i, 0), "none",
                [layers EXCEPT ![i] = uploadInputValues(@)],
                <<Transfer("write", "values", i, layers[i].buf_values # <<>>)>>)
    /\ UNCHANGED <<mFirstLayer, mCurrentLayer>>

\* NeuronLayer::enqueueWriteBuffers called on layer i
Layer_enqueueWriteBuffers(i) ==
    /\ CanCall
    /\ Returned(Call("Layer.enqueueWriteBuffers", i, 0), "none",
                [layers EXCEPT ![i] = enqueueWriteBuffers(@)], StageEntries(layers, i))
    /\ UNCHANGED <<mFirstLayer, mCurrentLayer>>

\* NeuronLayer::initRandomWeights called on layer i
Layer_initRandomWeights(i, seed) ==
    /\ CanCall
    /\ IF initRandomWeights_linked(layers[i])
       THEN Returned(Call("Layer.initRandomWeights", i, 0), "none",
                     [layers EXCEPT ![i] = initRandomWeights(@, seed)], <<>>)
       ELSE Returned(Call("Layer.initRandomWeights", i, 0), "layer_not_linked", layers, <<>>)
    /\ UNCHANGED <<mFirstLayer, mCurrentLayer>>

\* the loop of Perceptron::initRandomWeights; the k-th generator is seeded seed + k
RECURSIVE Perceptron_initRandomWeights(_, _, _)
Perceptron_initRandomWeights(ls, layer, seed) ==
    IF ls[layer].out_layer = 0 THEN ls
    ELSE Perceptron_initRandomWeights(
             [ls EXCEPT ![layer] = initRandomWeights(@, seed % Cardinality(Seeds))],
             ls[layer].out_layer, seed + 1)

Net_initRandomWeights(seed, ub) ==
    /\ CanCall
    /\ IF mFirstLayer = 0
       THEN IF ub = "abort" THEN Aborted(Call("initRandomWeights", 0, 0))
            ELSE Returned(Call("initRandomWeights", 0, 0), "none", layers, <<>>)
       ELSE Returned(Call("initRandomWeights", 0, 0), "none",
                     Perceptron_initRandomWeights(layers, mFirstLayer, seed), <<>>)
    /\ UNCHANGED <<mFirstLayer, mCurrentLayer>>

\* ------------------------------------------------------- Perceptron::run
\* the loop condition of Perceptron::run, at the layer the loop stands on
run_continues(ls, layer) == ls[layer].out_layer # 0

\* where control stands once run stands on `layer`: in the loop, or back in
\* the caller (ret)
run_pc(ls, layer, ret) == IF run_continues(ls, layer) THEN "run" ELSE ret

\* Perceptron::run called from outside: its guard and the entry of its loop
run ==
    /\ CanCall
    /\ call' = Call("run", mFirstLayer, 0)
    /\ nOps' = nOps + 1
    /\ devLog' = <<>>
    /\ IF mFirstLayer = 0
       THEN /\ err' = "no_layers"
            /\ pc' = "idle"
            /\ t' = T0
       ELSE /\ err' = "none"
            /\ pc' = run_pc(layers, mFirstLayer, "idle")
            /\ t' = [T0 EXCEPT !.layer = mFirstLayer, !.ret = "idle"]
    /\ UNCHANGED <<layers, mFirstLayer, mCurrentLayer, queue, delta_bufs, training_out_buf>>

\* one turn of the loop of Perceptron::run: layer->enqueueRun(kernel), then
\* the move to the next layer
run_step ==
    /\ pc = "run"
    /\ \E M \in {enqueueRun(Mem, t.layer)} : SetMem(M)
    /\ t' = [t EXCEPT !.layer = layers[t.layer].out_layer]
    /\ pc' = run_pc(layers, layers[t.layer].out_layer, t.ret)
    /\ UNCHANGED <<mFirstLayer, mCurrentLayer, err, call, nOps>>

\* ----------------------------------------------------- Perceptron::train
\* bit k (1: lowest) of x
Bit(x, k) == (x \div (2 ^ (k - 1))) % 2

\* a training set of n examples: the inputs count up in binary, every
\* expected output is the exclusive or of the two low input bits
TrainingIn(n, in_len) == [e \in 1..n |-> [k \in 1..in_len |-> Bit(e - 1, k)]]

TrainingOut(n, out_len) == [e \in 1..n |-> Fill(out_len, (Bit(e - 1, 1) + Bit(e - 1, 2)) % 2)]

\* a training set of n examples whose expected outputs follow the truth table
\* f: bit e of f is what every output of example e is expected to be
TrainingOutOf(f, n, out_len) == [e \in 1..n |-> Fill(out_len, Bit(f, e))]

\* the two guards of train, in the order the code evaluates them
train_sizesDiffer(training_in_values, training_out_values) ==
    Len(training_in_values) # Len(training_out_values)

train_noLayers(first) == first = 0

\* the delta buffers train creates: one per layer of the chain, from `layer` on
RECURSIVE train_deltaBufs(_, _)
train_deltaBufs(ls, layer) ==
    IF layer = 0 THEN <<>>
    ELSE <<Fill(ls[layer].size, Uninit)>> \o train_deltaBufs(ls, ls[layer].out_layer)

\* the buffer of the expected output, as train sizes it
train_outBufLen(training_out_values) == Len(training_out_values)

\* train has thrown e before its loop
train_throws(e) ==
    /\ err' = e
    /\ pc' = "idle"
    /\ t' = [T0 EXCEPT !.outcome = "exception"]
    /\ UNCHANGED <<delta_bufs, training_out_buf>>

\* Perceptron::train: the guards and the buffers prepared before the loop
train(training_in_values, training_out_values, confidence, max_iterations) ==
    /\ CanCall
    /\ call' = Call("train", Len(training_in_values), max_iterations)
    /\ nOps' = nOps + 1
    /\ devLog' = <<>>
    /\ IF train_sizesDiffer(training_in_values, training_out_values)
       THEN train_throws("train_size_mismatch")
       ELSE IF train_noLayers(mFirstLayer)
       THEN train_throws("train_no_layers")
       ELSE /\ err' = "none"
            /\ pc' = "t_loop"
            /\ delta_bufs' = train_deltaBufs(layers, mFirstLayer)
            /\ training_out_buf' = Fill(train_outBufLen(training_out_values), Uninit)
            /\ t' = [T0 EXCEPT !.tin = training_in_values, !.tout = training_out_values,
                               !.confidence = confidence, !.max_iterations = max_iterations]
    /\ UNCHANGED <<layers, mFirstLayer, mCurrentLayer, queue>>

\* two faulty variants: the body runs once whatever max_iterations is; the
\* comparison lets one iteration too many through
train_continues_atLeastOnce(train_, max_iterations, hasConverged) ==
    (train_ = 0 \/ train_ < max_iterations) /\ ~hasConverged

train_continues_inclusive(train_, max_iterations, hasConverged) ==
    train_ <= max_iterations /\ ~hasConverged

\* the loop condition of train, on the value of `train` before its increment
train_continues(train_, max_iterations, hasConverged) ==
    train_ < max_iterations /\ ~hasConverged

\* the index of the example of the iteration numbered train_ (from 1)
train_exampleIndex(train_) == (train_ - 1) % ExampleCycle

\* what a read of element idx of a vector of n elements, idx >= n, can yield:
\* the process dies, or the reference is to a vector that reads as empty, or
\* to one of the length asked for whose elements were never written
OutOfRangeOutcomes == {"abort", "empty", "junk"}

train_example(set, idx, len, ub) ==
    IF idx < Len(set) THEN set[idx + 1]
    ELSE IF ub = "junk" THEN Fill(len, Uninit) ELSE <<>>

\* train has returned (e = "none") or thrown from inside its loop
train_ends(tt, e, outcome) ==
    /\ pc' = "idle"
    /\ err' = e
    /\ t' = [tt EXCEPT !.outcome = outcome]

\* mFirstLayer->setValues(in); mFirstLayer->uploadInputValues(); run(kernel),
\* up to the entry of the loop of run; control comes back at ret
train_stageAndRun(tt, in, log, ret) ==
    IF ~setValues_sizeOk(layers[mFirstLayer], in)
    THEN /\ train_ends(tt, "size_mismatch", "exception")
         /\ devLog' = log
         /\ UNCHANGED layers
    ELSE /\ layers' = [layers EXCEPT ![mFirstLayer] = uploadInputValues(setValues(@, in))]
         /\ devLog' = Append(log, Transfer("write", "values", mFirstLayer,
                                          layers[mFirstLayer].buf_values # <<>>))
         /\ t' = [tt EXCEPT !.layer = mFirstLayer, !.ret = ret, !.runStart = Len(log) + 1]
         /\ pc' = run_pc(layers, mFirstLayer, ret)
         /\ UNCHANGED err

\* the head of the loop of train: the guard, the choice of the example, the
\* stage of its input and the entry of run
train_loop(ub) ==
    /\ pc = "t_loop"
    /\ LET tt == [t EXCEPT !.train = @ + 1] IN
       IF ~train_continues(t.train, t.max_iterations, t.hasConverged)
       THEN /\ train_ends(tt, "none", "not_converged")
            /\ UNCHANGED <<layers, devLog>>
       ELSE LET idx == train_exampleIndex(tt.train)
                it == [tt EXCEPT !.iterations = @ + 1,
                           !.training_in = train_example(t.tin, idx,
                                               layers[mFirstLayer].size - 1, ub),
                           !.training_out = train_example(t.tout, idx,
                                               layers[mCurrentLayer].size - 1, ub)]
            IN IF idx >= Len(t.tin) /\ ub = "abort"
               THEN /\ pc' = "aborted"
                    /\ t' = [tt EXCEPT !.iterations = @ + 1]
                    /\ UNCHANGED <<layers, devLog, err>>
               ELSE train_stageAndRun(it, it.training_in, <<>>, "t_check")
    /\ UNCHANGED <<mFirstLayer, mCurrentLayer, call, nOps, queue, delta_bufs,
                   training_out_buf>>

\* a faulty variant: the iterations are counted from 0 at the test
train_isCheckpoint_zeroBased(train_) == (train_ - 1) % CheckEvery = 0

\* whether the iteration numbered train_ evaluates convergence
train_isCheckpoint(train_) == train_ % CheckEvery = 0

\* after the forward pass of the iteration: the checkpoint test
train_check ==
    /\ pc = "t_check"
    /\ IF train_isCheckpoint(t.train)
       THEN /\ t' = [t EXCEPT !.hasConverged = TRUE, !.i = 0]
            /\ pc' = "t_sweep"
       ELSE /\ pc' = "t_outerr"
            /\ UNCHANGED t
    /\ UNCHANGED <<layers, mFirstLayer, mCurrentLayer, err, call, nOps, queue, devLog,
                   delta_bufs, training_out_buf>>

\* the head of the convergence sweep: the next example is staged and run, or
\* the sweep is over with hasConverged still true and train returns
train_sweep ==
    /\ pc = "t_sweep"
    /\ IF t.i < Len(t.tin)
       THEN train_stageAndRun(t, t.tin[t.i + 1], devLog, "t_sweep_check")
       ELSE /\ train_ends(t, "none", "converged")
            /\ UNCHANGED <<layers, devLog>>
    /\ UNCHANGED <<mFirstLayer, mCurrentLayer, call, nOps, queue, delta_bufs,
                   training_out_buf>>

AbsDiff(a, b) == IF a >= b THEN a - b ELSE b - a

\* the largest |values[i] - expected[i]| over the n first elements, in
\* hundredths; Uninit when one of the elements read was never written
MaxError(values, expected, n) ==
    LET v == ReadArray(values, n)
        x == ReadArray(expected, n)
    IN IF ~Defined(v) \/ ~Defined(x) THEN Uninit
       ELSE IF n = 0 THEN 0
       ELSE 100 * (CHOOSE m \in {AbsDiff(v[k], x[k]) : k \in 1..n} :
                      \A k \in 1..n : AbsDiff(v[k], x[k]) <= m)

\* Perceptron::checkOutputAgainstConfidence on the values fetched; a
\* comparison on a value never written can come out either way (guess)
checkOutputAgainstConfidence(l, expected, confidence, guess) ==
    LET max_error == MaxError(l.values, expected, l.size - 1)
    IN IF max_error = Uninit THEN guess ELSE max_error <= 100 - confidence

\* the body of the sweep after the run of example i: the check, and on a
\* failure the re-stage of the example of the iteration
train_sweep_check(guess) ==
    /\ pc = "t_sweep_check"
    /\ LET fetched == [layers EXCEPT ![mCurrentLayer] = enqueueReadValues(@)]
           log == Append(devLog, Transfer("read", "values", mCurrentLayer,
                                          layers[mCurrentLayer].buf_values # <<>>))
       IN IF checkOutputAgainstConfidence(fetched[mCurrentLayer], t.tout[t.i + 1],
                                          t.confidence, guess)
          THEN /\ layers' = fetched
               /\ devLog' = log
               /\ t' = [t EXCEPT !.i = @ + 1]
               /\ pc' = "t_sweep"
          ELSE /\ layers' = [fetched EXCEPT ![mFirstLayer] =
                                uploadInputValues(setValues(@, t.training_in))]
               /\ devLog' = Append(log, Transfer("write", "values", mFirstLayer,
                                                layers[mFirstLayer].buf_values # <<>>))
               /\ t' = [t EXCEPT !.hasConverged = FALSE]
               /\ pc' = "t_outerr"
    /\ UNCHANGED <<mFirstLayer, mCurrentLayer, err, call, nOps, queue, delta_bufs,
                   training_out_buf>>

\* the entry of the update loop: current_buf_num = 0, layer = the second layer
train_updateEntry(tt) ==
    LET layer == layers[mFirstLayer].out_layer
    IN [pc |-> IF layer = 0 THEN "t_loop" ELSE "t_update",
        t |-> [tt EXCEPT !.layer = layer, !.current_buf_num = 0]]

\* the entry of the backpropagation loop on `layer`, or of the update loop
\* when that loop has nothing (left) to do
train_backpropOrUpdate(tt, layer) ==
    IF layer = 0 THEN train_updateEntry(tt)
    ELSE [pc |-> "t_backprop", t |-> [tt EXCEPT !.layer = layer]]

\* step 1.2: the expected output is written into training_out_buf, the output
\* error is computed into the last delta buffer, the backpropagation is set up
train_outputError ==
    /\ pc = "t_outerr"
    /\ LET n == Len(t.training_out)
           fits == training_out_buf # <<>> /\ n > 0 /\ n <= Len(training_out_buf)
           written == [Mem EXCEPT
                         !.tob = IF fits THEN Overwrite(@, t.training_out) ELSE @,
                         !.log = Append(@, Transfer("write", "expected", mCurrentLayer, fits))]
           go == train_backpropOrUpdate([t EXCEPT !.current_buf_num = Len(delta_bufs) - 1],
                                        layers[mCurrentLayer].in_layer)
       IN /\ \E M \in {enqueueTrainOutputLayer(written, mCurrentLayer, Len(delta_bufs))} :
                 SetMem(M)
          /\ pc' = go.pc
          /\ t' = go.t
    /\ UNCHANGED <<mFirstLayer, mCurrentLayer, err, call, nOps>>

\* one turn of the backpropagation loop: succDeltaBuffer is
\* delta_bufs[current_buf_num], currentDeltaBuffer is delta_bufs[--current_buf_num]
train_backpropagate ==
    /\ pc = "t_backprop"
    /\ LET cur == t.current_buf_num - 1
           go == train_backpropOrUpdate([t EXCEPT !.current_buf_num = cur],
                                        layers[t.layer].in_layer)
       IN /\ \E M \in {enqueueTrainBackpropagate(Mem, t.layer, cur + 1, cur + 2)} :
                 SetMem(M)
          /\ pc' = go.pc
          /\ t' = go.t
    /\ UNCHANGED <<mFirstLayer, mCurrentLayer, err, call, nOps>>

\* one turn of the update loop: buf is delta_bufs[++current_buf_num]
train_updateWeights ==
    /\ pc = "t_update"
    /\ LET cur == t.current_buf_num + 1
           next == layers[t.layer].out_layer
       IN /\ \E M \in {enqueueTrainUpdateWeights(Mem, t.layer, cur + 1)} : SetMem(M)
          /\ pc' = IF next = 0 THEN "t_loop" ELSE "t_update"
          /\ t' = [t EXCEPT !.layer = next, !.current_buf_num = cur]
    /\ UNCHANGED <<mFirstLayer, mCurrentLayer, err, call, nOps>>

\* --------------------------------------------------------- specifications
\* the example length the chain asks for (1 on an empty chain)
InLen == IF mFirstLayer = 0 THEN 1 ELSE layers[mFirstLayer].size - 1

OutLen == IF mCurrentLayer = 0 THEN 1 ELSE layers[mCurrentLayer].size - 1

\* numbers of examples <<inputs, outputs>> of the training sets of Spec
TrainSetShapes == {<<1, 1>>, <<4, 4>>, <<2, 4>>}

\* the steps inside run and inside one training iteration, sweep apart
IterationStep ==
    \/ run_step
    \/ \E ub \in OutOfRangeOutcomes : train_loop(ub)
    \/ train_check
    \/ train_outputError
    \/ train_backpropagate
    \/ train_updateWeights

\* the public interface driven by any client, with short trainings
Next ==
    \/ \E size \in Sizes, seed \in Seeds : createLayer(size, seed)
    \/ \E i \in 1..Len(layers) : \E vals \in ValueLists(layers[i]) : Layer_setValues(i, vals)
    \/ \E i \in 1..Len(layers) : \E w \in WeightLists(layers[i]), ub \in NullAccessOutcomes :
           Layer_setWeights(i, w, ub)
    \/ \E count \in 0..(Len(layers) + 1), mode \in {"used", "alloc"}, c \in 0..1,
          ub \in NullAccessOutcomes : Net_setWeights(NetWeightLists(count, mode, c), ub)
    \/ \E n \in {InLen - 1, InLen}, c \in 0..1 : setInputValues(PatternList(n, c))
    \/ \E ub \in NullAccessOutcomes : upload(ub)
    \/ enqueueReadAllBuffers
    \/ \E i \in 1..Len(layers) : \E n \in {layers[i].size - 1, layers[i].size} :
           Layer_enqueueWriteInputBuffer(i, Fill(n, 0))
    \/ \E i \in 1..Len(layers) : Layer_uploadInputValues(i)
    \/ \E i \in 1..Len(layers) : Layer_enqueueWriteBuffers(i)
    \/ \E i \in 1..Len(layers), seed \in Seeds : Layer_initRandomWeights(i, seed)
    \/ \E seed \in Seeds, ub \in NullAccessOutcomes : Net_initRandomWeights(seed, ub)
    \/ run
    \/ \E s \in TrainSetShapes, max_iterations \in 0..MaxShortIter :
           train(TrainingIn(s[1], InLen), TrainingOut(s[2], OutLen), DefaultConfidence,
                 max_iterations)
    \/ IterationStep

Spec == Init /\ [][Next]_vars

\* a perceptron of the layers of the sizes given, their weights drawn with seed
RECURSIVE BuildChain(_, _, _)
BuildChain(P, sizes, seed) ==
    IF sizes = <<>> THEN P
    ELSE BuildChain(Perceptron_createLayer(P, Head(sizes), seed), Tail(sizes), seed)

\* after createLayer for each of two layers or more and upload: the one call left is train
InitTrain ==
    \E n \in 2..MaxLayers : \E sizes \in [1..n -> Sizes], seed \in Seeds :
        LET P == BuildChain([layers |-> <<>>, mFirstLayer |-> 0, mCurrentLayer |-> 0],
                            sizes, seed)
        IN /\ layers = Perceptron_upload(P.layers, P.mFirstLayer, P.mCurrentLayer).ls
           /\ mFirstLayer = P.mFirstLayer
           /\ mCurrentLayer = P.mCurrentLayer
           /\ pc = "idle"
           /\ err = "none"
           /\ call = Call("upload", P.mCurrentLayer, 0)
           /\ nOps = MaxOps - 1
           /\ queue = <<>>
           /\ devLog = <<>>
           /\ delta_bufs = <<>>
           /\ training_out_buf = <<>>
           /\ t = T0

\* numbers of examples and confidences (in hundredths) of the trainings of TrainSpec
TrainSetSizes == {1, 4}

Confidences == {0, DefaultConfidence}

\* the truth tables trained on with n examples: 6 is the exclusive or of the
\* two low input bits (the expected outputs of TrainingOut), 11 expects 1, 1, 0, 1
TrainTargets(n) == IF n = ExampleCycle THEN {6, 11} ELSE {6}

TrainStep ==
    \/ IterationStep
    \/ train_sweep
    \/ \E guess \in BOOLEAN : train_sweep_check(guess)

NextTrain ==
    \/ \E n \in TrainSetSizes, confidence \in Confidences, max_iterations \in {0, MaxIter} :
           \E f \in TrainTargets(n) :
               train(TrainingIn(n, InLen), TrainingOutOf(f, n, OutLen), confidence,
                     max_iterations)
    \/ TrainStep

\* one thread of control: a call that has started goes on until it ends
TrainSpec == InitTrain /\ [][NextTrain]_vars /\ WF_vars(TrainStep)

\* ------------------------------------------------------------- properties
\* the step is a call of op from outside
Calls(op) == call'.op = op /\ nOps' = nOps + 1

\* C1: in a chain of N layers every layer but the last has a weight matrix of
\* size * next.size elements (bias included on both sides) and the last layer
\* has no weight matrix, after every createLayer and every call that follows.
C1_WeightMatrixLength ==
    \A i \in 1..Len(layers) :
        IF i < Len(layers)
        THEN Len(layers[i].weights) = layers[i].size * layers[i + 1].size
        ELSE layers[i].weights = <<>>

\* C1, its case: a third layer has just been chained to two layers of different sizes
C1_Witness ==
    /\ call.op = "createLayer"
    /\ Len(layers) = 3
    /\ layers[1].size # layers[2].size
    /\ layers[2].weights # <<>>

\* C2: the bias slot of the host values of every layer holds 1 in every
\* reachable state, whatever stage, run and fetch calls came before.
C2_BiasAlwaysOne ==
    \A i \in 1..Len(layers) : layers[i].values[layers[i].size] = init_biasValue

\* C2, its failing case: a caller-supplied input of `size` zeros was staged
\* into the first layer and fetched back; the host bias slot now holds 0
C2_BiasFetchedAsZero ==
    /\ call.op = "enqueueReadAllBuffers"
    /\ Len(layers) >= 2
    /\ layers[1].values[layers[1].size] = 0

\* C3: a setValues (on a layer, or on the first layer through setInputValues)
\* with a list whose length is not size-1 throws the size mismatch and leaves
\* the host values, the weights and the device buffers of every layer as they were.
C3_SetValuesRejectsWrongLength ==
    [][ ((Calls("Layer.setValues") \/ Calls("setInputValues"))
            /\ call'.layer # 0
            /\ call'.n # layers[call'.layer].size - 1)
        => (err' = "size_mismatch" /\ pc' = "idle" /\ layers' = layers) ]_vars

\* C3, its case: a list of the wrong length was refused on a layer whose
\* device buffers exist
C3_Witness ==
    /\ call.op = "Layer.setValues"
    /\ err = "size_mismatch"
    /\ call.n # layers[call.layer].size - 1
    /\ layers[call.layer].buf_values # <<>>

\* C4: Layer.setWeights returns normally exactly when the list has as many
\* elements as the weight matrix allocated (size * next.size); with any other
\* length, and on a layer without a next layer, it throws the size mismatch
\* and writes nothing.
C4_SetWeightsExactArity ==
    [][ Calls("Layer.setWeights") =>
          LET l == layers[call'.layer]
          IN IF l.out_layer # 0 /\ call'.n = l.size * l.out_size
             THEN err' = "none" /\ pc' = "idle"
             ELSE err' = "size_mismatch" /\ pc' = "idle" /\ layers' = layers ]_vars

\* C4, its failing case: a list of exactly the allocated length was refused
C4_AllocatedLengthRefused ==
    /\ call.op = "Layer.setWeights"
    /\ err = "size_mismatch"
    /\ layers[call.layer].out_layer # 0
    /\ call.n = Len(layers[call.layer].weights)

\* C5: Perceptron::setWeights on a chain of N layers throws whenever the
\* number of lists is not N-1; with N-1 lists that the layers accept, list k
\* is what layer k holds afterwards.
C5_SetWeightsListCount ==
    [][ (Calls("setWeights") /\ Len(layers) >= 1) =>
          IF call'.n # Len(layers) - 1
          THEN err' # "none" /\ pc' = "idle"
          ELSE err' = "none" =>
                 \E mode \in {"used", "alloc"}, c \in 0..1 :
                     \A k \in 1..(Len(layers) - 1) :
                         LET list == NetWeightLists(Len(layers) - 1, mode, c)[k]
                         IN SubSeq(layers'[k].weights, 1, Len(list)) = list ]_vars

\* C5, its failing case: one list for a chain of three layers (two
\* boundaries) was taken without an error
C5_TooFewListsAccepted ==
    /\ call.op = "setWeights"
    /\ pc = "idle"
    /\ err = "none"
    /\ Len(layers) = 3
    /\ call.n = 1

\* control stands inside train (the run it calls included)
InTrain ==
    \/ pc \in {"t_loop", "t_check", "t_sweep", "t_sweep_check", "t_outerr", "t_backprop",
               "t_update"}
    \/ pc = "run" /\ t.ret # "idle"

\* the last call was train and it is over: returned, thrown, or died
TrainOver == call.op = "train" /\ ~InTrain

DispatchesIn(log, k) == {j \in 1..Len(log) : log[j].ev = "enqueue" /\ log[j].k = k}

\* C6: train throws before it stages, dispatches or changes anything when the
\* training inputs and outputs differ in number or when the chain has fewer
\* than two layers: it never gets into its loop then.
C6_TrainEntryErrors ==
    /\ InTrain => (Len(layers) >= 2 /\ Len(t.tin) = Len(t.tout))
    /\ (TrainOver /\ Len(layers) < 2) => (pc = "idle" /\ err # "none" /\ devLog = <<>>)

\* C6, its failing case: train on a chain of one layer has dispatched the
\* output-error kernel
C6_OneLayerChainTrained ==
    /\ call.op = "train"
    /\ Len(layers) = 1
    /\ DispatchesIn(devLog, "outputError") # {}

\* C7: train called with max_iterations = 0 changes no weight, on the host or
\* on the device, issues no update-weights dispatch, and returns with the
\* outcome "not converged" without entering its loop body.
C7_ZeroIterationsNoMutation ==
    [][ (call'.op = "train" /\ t'.max_iterations = 0 /\ (pc = "t_loop" \/ pc' = "t_loop"))
        => /\ \A i \in 1..Len(layers) :
                  /\ layers'[i].weights = layers[i].weights
                  /\ layers'[i].buf_weights = layers[i].buf_weights
           /\ DispatchesIn(devLog', "updateWeights") = {}
           /\ pc = "t_loop" =>
                  /\ pc' = "idle"
                  /\ err' = "none"
                  /\ t'.outcome = "not_converged"
                  /\ t'.iterations = 0
                  /\ layers' = layers ]_vars

\* C7, its case: train with max_iterations = 0 has returned on a chain of
\* two layers or more whose buffers are staged
C7_Witness ==
    /\ TrainOver
    /\ pc = "idle"
    /\ t.max_iterations = 0
    /\ t.outcome = "not_converged"
    /\ Len(layers) >= 2
    /\ \A i \in 1..Len(layers) : layers[i].buf_values = layers[i].values

\* C8: on a chain of two layers or more train always ends, it never starts
\* more than max_iterations iterations, and when the iterations are used up
\* without convergence it returns normally: no exception, outcome "not converged".
C8_TrainTerminates ==
    /\ [](t.iterations <= t.max_iterations)
    /\ [][ (pc = "t_loop" /\ ~t.hasConverged /\ t.iterations = t.max_iterations)
           => (pc' = "idle" /\ err' = "none" /\ t'.outcome = "not_converged") ]_vars
    /\ (InTrain ~> TrainOver)

\* C8, its case: a training of MaxIter iterations has used them all up and
\* has returned without convergence
C8_Witness ==
    /\ TrainOver
    /\ pc = "idle"
    /\ t.max_iterations = MaxIter
    /\ t.iterations = MaxIter
    /\ t.outcome = "not_converged"

\* C9: when upload has returned on a chain of one layer or more, every layer
\* has its device buffers created and they hold what the host holds: the
\* values of every layer, the weights of every layer but the last.
C9_UploadMirrorsHost ==
    (call.op = "upload" /\ pc = "idle" /\ Len(layers) >= 1) =>
        /\ err = "none"
        /\ \A i \in 1..Len(layers) :
               /\ Len(layers[i].buf_values) = layers[i].size
               /\ layers[i].buf_values = layers[i].values
               /\ i < Len(layers) =>
                      /\ Len(layers[i].buf_weights) = layers[i].size * layers[i + 1].size
                      /\ layers[i].buf_weights = layers[i].weights

\* C9, its case: upload has returned on a chain of three layers after
\* the host values of the first were changed
C9_Witness ==
    /\ call.op = "upload"
    /\ pc = "idle"
    /\ Len(layers) = 3
    /\ layers[1].values[1] = 1

\* what the log holds when forward steps were made on the layers 1..k in
\* this order, each dispatch followed by its finish
LogShape(log) == [j \in 1..Len(log) |-> <<log[j].ev, log[j].k, log[j].layer>>]

ForwardSteps(k) ==
    [j \in 1..(2 * k) |->
        IF j % 2 = 1 THEN <<"enqueue", "forward", (j + 1) \div 2>> ELSE <<"finish", "", 0>>]

\* C10: run makes one forward step on each layer that has a next layer, in
\* chain order from the first, none on the last; a step is dispatched only
\* once the queue has finished the one before; on an empty chain run throws.
C10_RunOrder ==
    /\ (pc \in {"run", "t_check", "t_sweep_check"} \/ (call.op = "run" /\ err = "none")) =>
           /\ t.layer \in 1..Len(layers)
           /\ LogShape(SubSeq(devLog, t.runStart + 1, Len(devLog))) = ForwardSteps(t.layer - 1)
           /\ pc # "run" => t.layer = Len(layers)
           /\ pc = "run" => t.layer < Len(layers)
    /\ queue = <<>>
    /\ (call.op = "run" /\ Len(layers) = 0) => (err = "no_layers" /\ pc = "idle")

\* C10, its case: run has returned on a chain of three layers
C10_Witness ==
    /\ call.op = "run"
    /\ pc = "idle"
    /\ err = "none"
    /\ Len(layers) = 3
    /\ Len(devLog) = 4

Mirror(ls, i) == <<ls[i].buf_values, ls[i].buf_weights>>

\* the host arrays of layer i of ls
HostCopy(ls, i) == <<ls[i].values, ls[i].weights>>

\* C12: a Layer setter (setValues, setWeights) changes the host copy of its
\* layer only: the device buffers of every layer keep their content, and so
\* does everything of the other layers.  A stage call on a layer whose
\* buffers were created (uploadInputValues for the values, enqueueWriteBuffers
\* for values and weights, upload for every layer of the chain) leaves the
\* host copy as it was and the device buffers staged equal to it.
C12_HostSetterStaleUntilStage ==
    [][ /\ (Calls("Layer.setValues") \/ Calls("Layer.setWeights")) =>
              /\ Len(layers') = Len(layers)
              /\ \A i \in 1..Len(layers) :
                     /\ Mirror(layers', i) = Mirror(layers, i)
                     /\ i # call'.layer => layers'[i] = layers[i]
              /\ Calls("Layer.setValues") =>
                     layers'[call'.layer].weights = layers[call'.layer].weights
              /\ Calls("Layer.setWeights") =>
                     layers'[call'.layer].values = layers[call'.layer].values
              /\ <<queue', delta_bufs', training_out_buf'>>
                     = <<queue, delta_bufs, training_out_buf>>
        /\ (Calls("Layer.uploadInputValues") /\ layers[call'.layer].buf_values # <<>>) =>
              /\ \A i \in 1..Len(layers) : HostCopy(layers', i) = HostCopy(layers, i)
              /\ layers'[call'.layer].buf_values = layers'[call'.layer].values
        /\ (Calls("Layer.enqueueWriteBuffers") /\ layers[call'.layer].buf_values # <<>>) =>
              /\ \A i \in 1..Len(layers) : HostCopy(layers', i) = HostCopy(layers, i)
              /\ Mirror(layers', call'.layer) = HostCopy(layers', call'.layer)
        /\ (Calls("upload") /\ mCurrentLayer # 0) =>
              \A i \in 1..Len(layers) :
                  /\ HostCopy(layers', i) = HostCopy(layers, i)
                  /\ Mirror(layers', i) = HostCopy(layers', i) ]_vars

\* C12, its case: the values a setter had put on the host of a layer, which
\* the device did not hold, have reached the device with the stage call
C12_Witness ==
    /\ call.op = "Layer.uploadInputValues"
    /\ Len(layers) >= 2
    /\ layers[call.layer].values[1] = 1
    /\ layers[call.layer].buf_values = layers[call.layer].values

\* C13: NeuronLayer::initRandomWeights on a layer that has no next layer
\* throws LayerNotLinkedException and changes nothing; on a layer that has
\* one it returns normally, every one of the size * next.size slots of the
\* weight matrix then holds a value drawn from the distribution, and nothing
\* but that matrix has changed: not the values, not the device buffers, not
\* the links, not another layer.
C13_InitRandomWeightsLinkedOnly ==
    [][ Calls("Layer.initRandomWeights") =>
          LET i == call'.layer
              l == layers[i]
          IN /\ pc' = "idle"
             /\ <<mFirstLayer', mCurrentLayer', queue', delta_bufs', training_out_buf'>>
                    = <<mFirstLayer, mCurrentLayer, queue, delta_bufs, training_out_buf>>
             /\ IF l.out_layer = 0
                THEN err' = "layer_not_linked" /\ layers' = layers
                ELSE /\ err' = "none"
                     /\ layers' = [layers EXCEPT ![i].weights = layers'[i].weights]
                     /\ Len(layers'[i].weights) = l.size * layers[l.out_layer].size
                     /\ \A k \in 1..(l.size * layers[l.out_layer].size) :
                            layers'[i].weights[k] \in {RandW(seed, k) : seed \in Seeds} ]_vars

\* C13, its case: the weights of a layer linked to a layer of another size
\* were drawn again and are not the ones the device holds
C13_Witness ==
    /\ call.op = "Layer.initRandomWeights"
    /\ err = "none"
    /\ layers[call.layer].size # layers[call.layer].out_size
    /\ layers[call.layer].buf_weights # layers[call.layer].weights

\* the device memory after the forward steps of Perceptron::run from `layer` on
RECURSIVE ForwardPass(_, _)
ForwardPass(M, layer) ==
    IF M.ls[layer].out_layer = 0 THEN M
    ELSE ForwardPass(ExecKernel(M, Cmd("forward", layer, 0, 0)), M.ls[layer].out_layer)

\* the device values of every layer after the input `in` is staged into the
\* first layer and run through the chain with the weights the device holds
ForwardValues(in) ==
    LET staged == [Mem EXCEPT !.ls[mFirstLayer] = uploadInputValues(setValues(@, in))]
        ran == ForwardPass(staged, mFirstLayer).ls
    IN [i \in 1..Len(layers) |-> ran[i].buf_values]

DeviceValues == [i \in 1..Len(layers) |-> layers[i].buf_values]

\* C14: whenever train stands at the computation of the output error, the
\* device values of every layer are those of a forward pass over the input
\* of the example of the iteration with the weights the device holds, on
\* checkpoint iterations as on the others.
C14_OutputErrorOnFreshForward ==
    pc = "t_outerr" => DeviceValues = ForwardValues(t.training_in)

\* C14, its failing case: on a checkpoint iteration the sweep has failed and
\* the output error is about to be computed on the output of another example
\* than the one of the iteration
C14_StaleOutputAtCheckpoint ==
    /\ pc = "t_outerr"
    /\ train_isCheckpoint(t.train)
    /\ ~t.hasConverged
    /\ layers[mFirstLayer].buf_values = ForwardValues(t.training_in)[mFirstLayer]
    /\ layers[mCurrentLayer].buf_values # ForwardValues(t.training_in)[mCurrentLayer]
    /\ layers[mCurrentLayer].buf_values = ForwardValues(t.tin[t.i + 1])[mCurrentLayer]

\* the layers on which kernel k was dispatched, in the order of the log
DispatchedLayers(log, k) ==
    LET RECURSIVE pick(_)
        pick(j) == IF j > Len(log) THEN <<>>
                   ELSE IF log[j].ev = "enqueue" /\ log[j].k = k
                        THEN <<log[j].layer>> \o pick(j + 1)
                        ELSE pick(j + 1)
    IN pick(1)

\* the layers from a down to b
Descending(a, b) == [j \in 1..(a - b + 1) |-> a - j + 1]

\* C15: in a training iteration backpropagateError is dispatched on the
\* layers from the one before the last down to the second and on no other:
\* never on the first layer, and the first delta buffer is never written.
C15_BackpropStopsAtSecondLayer ==
    /\ \A j \in DispatchesIn(devLog, "backpropagate") :
           devLog[j].layer # mFirstLayer /\ devLog[j].a # 1
    /\ (InTrain /\ pc = "t_update") =>
           DispatchedLayers(devLog, "backpropagate") = Descending(Len(layers) - 1, 2)

\* C15, its failing case: on a chain of three layers the backpropagation has
\* gone on past the second layer: it was dispatched on the first layer and
\* has written a delta into the first delta buffer
C15_FirstLayerBackpropagated ==
    /\ pc = "t_update"
    /\ Len(layers) = 3
    /\ DispatchedLayers(devLog, "backpropagate") = Descending(2, 1)
    /\ \E j \in DispatchesIn(devLog, "backpropagate") :
           devLog[j].layer = mFirstLayer /\ devLog[j].a = 1 /\ devLog[j].ok
    /\ delta_bufs[1][1] # Uninit

\* the kernel events (dispatches and barriers) of the log, transfers left out
KernelEvents(log) ==
    LET RECURSIVE pick(_)
        pick(j) == IF j > Len(log) THEN <<>>
                   ELSE IF log[j].ev \in {"enqueue", "finish"}
                        THEN <<log[j]>> \o pick(j + 1)
                        ELSE pick(j + 1)
    IN pick(1)

\* the dispatches of the log, each as <<kernel, layer>>
Dispatches(log) ==
    LET ev == KernelEvents(log)
    IN [j \in 1..((Len(ev) + 1) \div 2) |-> <<ev[2 * j - 1].k, ev[2 * j - 1].layer>>]

\* whether dispatch e may come right after dispatch d in an iteration on a
\* chain of n layers; a second forward pass is one of the convergence sweep
FollowsInIteration(d, e, n, sweep) ==
    CASE d[1] = "forward" ->
            \/ d[2] < n - 1 /\ e = <<"forward", d[2] + 1>>
            \/ d[2] = n - 1 /\ e = <<"outputError", n>>
            \/ d[2] = n - 1 /\ sweep /\ e = <<"forward", 1>>
      [] d[1] = "outputError" -> e = <<"backpropagate", n - 1>>
      [] d[1] = "backpropagate" ->
            \/ d[2] > 1 /\ e = <<"backpropagate", d[2] - 1>>
            \/ d[2] = 1 /\ e = <<"updateWeights", 2>>
      [] d[1] = "updateWeights" -> d[2] < n /\ e = <<"updateWeights", d[2] + 1>>
      [] OTHER -> FALSE

\* C16: in a training iteration every dispatch is followed by its barrier
\* before the next one is enqueued, and the dispatches come in this order:
\* the forward steps on the layers 1..N-1 ascending (once more per example
\* swept on a checkpoint iteration), the output error on the last layer, the
\* backpropagation on descending layers, the weight updates on the layers
\* 2..N ascending; an iteration that has come back to the head of the loop
\* has made all of them, the update of the last layer last.
C16_IterationOrder ==
    (InTrain /\ t.iterations >= 1) =>
        LET ev == KernelEvents(devLog)
            d == Dispatches(devLog)
            n == Len(layers)
        IN /\ queue = <<>>
           /\ Len(ev) % 2 = 0
           /\ \A j \in 1..Len(ev) : ev[j].ev = (IF j % 2 = 1 THEN "enqueue" ELSE "finish")
           /\ d # <<>> => d[1] = <<"forward", 1>>
           /\ \A j \in 1..(Len(d) - 1) :
                  FollowsInIteration(d[j], d[j + 1], n, train_isCheckpoint(t.train))
           /\ pc = "t_outerr" => d[Len(d)] = <<"forward", n - 1>>
           /\ pc = "t_loop" => d[Len(d)] = <<"updateWeights", n>>

\* C16, its case: an iteration on a chain of three layers has made its two
\* forward steps, the output error, two backpropagations and two updates
C16_Witness ==
    /\ pc = "t_loop"
    /\ t.iterations >= 1
    /\ Len(layers) = 3
    /\ Len(Dispatches(devLog)) = 7
    /\ Dispatches(devLog)[7] = <<"updateWeights", 3>>

\* control stands in the convergence sweep (the run it calls included)
InSweep ==
    \/ pc \in {"t_sweep", "t_sweep_check"}
    \/ pc = "run" /\ t.ret = "t_sweep_check"

\* the largest deviation, in hundredths, of the output a forward pass over
\* example e gives with the weights the device holds from the output
\* expected of e, over the slots of the last layer before the bias
ExampleError(e) ==
    MaxError(ForwardValues(t.tin[e])[mCurrentLayer], t.tout[e],
             layers[mCurrentLayer].size - 1)

\* example e is within (beyond) the confidence; a deviation computed from a
\* value never written compares either way
ExampleWithin(e) == ExampleError(e) = Uninit \/ ExampleError(e) <= 100 - t.confidence

ExampleBeyond(e) == ExampleError(e) = Uninit \/ ExampleError(e) > 100 - t.confidence

\* C17: train evaluates convergence on the iterations whose number, counted
\* from 1, is a multiple of 100, and on no other; the sweep takes the
\* examples in order, each checked on the output of a forward pass of its
\* own; train reports convergence only on such an iteration and only when
\* every example of the set is within 1 - confidence; when an example is
\* beyond it the sweep stops, the input of the example of the iteration is
\* staged again into the first layer and the iteration goes on to the
\* output error.
C17_ConvergenceEveryHundred ==
    /\ [](InSweep => (t.train >= 1 /\ t.train % CheckEvery = 0 /\ t.train = t.iterations))
    /\ [](pc = "t_sweep_check" => DeviceValues = ForwardValues(t.tin[t.i + 1]))
    /\ []((pc = "t_sweep" /\ t.hasConverged) => \A e \in 1..t.i : ExampleWithin(e))
    /\ [](t.outcome = "converged" =>
              /\ t.train >= 1 /\ t.train % CheckEvery = 0 /\ t.train = t.iterations
              /\ pc = "idle" /\ err = "none"
              /\ \A e \in 1..Len(t.tin) : ExampleWithin(e))
    /\ [][ /\ pc = "t_check" =>
                  IF t.train % CheckEvery = 0 THEN pc' = "t_sweep" /\ t'.i = 0
                  ELSE pc' = "t_outerr"
           /\ (InSweep /\ ~InSweep') =>
                  \/ /\ t'.outcome = "converged"
                     /\ t.i = Len(t.tin)
                  \/ /\ pc' = "t_outerr"
                     /\ ExampleBeyond(t.i + 1)
                     /\ ~t'.hasConverged
                     /\ t'.iterations = t.iterations
                     /\ layers'[mFirstLayer].buf_values = Append(t.training_in, 1)
                     /\ layers'[mFirstLayer].values = Append(t.training_in, 1)
                  \/ t'.outcome = "exception" ]_vars

\* C17, its case: train has reported convergence at iteration 100 with the
\* default confidence on a set of four examples that are not all alike
C17_Witness ==
    /\ t.outcome = "converged"
    /\ t.train = CheckEvery
    /\ t.confidence = DefaultConfidence
    /\ Len(t.tin) = 4
    /\ t.tout[1] # t.tout[3]
    /\ \A e \in 1..4 : ExampleError(e) = 0

\* C18: in every iteration of train the index of the example selected lies
\* within the training set, whatever its number of examples (one or more);
\* input and expected output are the examples at that one index.
C18_ExampleIndexInRange ==
    (call.op = "train" /\ t.iterations >= 1) =>
        /\ train_exampleIndex(t.iterations) \in 0..(Len(t.tin) - 1)
        /\ pc # "aborted"
        /\ t.training_in = t.tin[train_exampleIndex(t.iterations) + 1]
        /\ t.training_out = t.tout[train_exampleIndex(t.iterations) + 1]

\* C18, its failing case: on a training set of one example the second
\* iteration has selected index 1, behind the end of the set, and has
\* staged what it found there
C18_IndexBehindTheSet ==
    /\ call.op = "train"
    /\ Len(t.tin) = 1
    /\ t.iterations = 2
    /\ train_exampleIndex(t.iterations) = 1
    /\ pc = "t_outerr"
    /\ t.training_in # t.tin[1]

\* the transfers of `what` the log holds
TransfersIn(log, what) == {j \in 1..Len(log) : log[j].ev = "write" /\ log[j].k = what}

\* C19: the buffer train creates for the expected output holds at least as
\* many elements as the output-error step writes into it, for a training set
\* of any number of examples and any number of outputs per example: the
\* write of the expected output never fails for want of room.
C19_ExpectedOutputFits ==
    /\ pc = "t_outerr" => Len(t.training_out) <= Len(training_out_buf)
    /\ (call.op = "train" /\ Len(layers) >= 2) =>
           \A j \in TransfersIn(devLog, "expected") : devLog[j].ok

\* C19, its failing case: one example of two outputs; the buffer was created
\* with one element, and the write of the two expected outputs of the first
\* iteration has failed
C19_ExpectedOutputOverflows ==
    /\ call.op = "train"
    /\ t.iterations = 1
    /\ Len(t.tin) = 1
    /\ Len(t.training_out) = 2
    /\ t.training_out = t.tout[1]
    /\ Len(training_out_buf) = 1
    /\ \E j \in TransfersIn(devLog, "expected") : ~devLog[j].ok

\* the operations of Perceptron the claim is about
NetworkOps == {"createLayer", "setWeights", "setInputValues", "upload", "run", "train"}

\* entry e of the log is a device operation on a buffer that does not exist;
\* the stage of the weights of a layer without a weight matrix moves 0 bytes
\* and is not counted
OnMissingBuffer(e) ==
    /\ ~e.ok
    /\ ~(e.ev = "write" /\ e.k = "weights" /\ layers[e.layer].out_layer = 0)

\* C20: whatever layers were created, a first call of setWeights,
\* setInputValues, upload, run or train issues device operations (stages,
\* fetches, kernel dispatches) on buffers that exist only; run never
\* dispatches a forward step whose output buffer, the value buffer of the
\* last layer, was not created.
C20_DeviceOpsOnCreatedBuffers ==
    (call.op \in NetworkOps /\ nOps <= 1) =>
        \A j \in 1..Len(devLog) : ~OnMissingBuffer(devLog[j])

\* C20, its failing case: two layers were created and run was called, with
\* no upload before: the forward step of the first layer was dispatched with
\* the value buffer of the last layer, which does not exist, as its output
C20_RunBeforeUpload ==
    /\ call.op = "run"
    /\ nOps = 1
    /\ pc = "idle"
    /\ err = "none"
    /\ Len(layers) = 2
    /\ layers[1].buf_values # <<>>
    /\ layers[2].buf_values = <<>>
    /\ \E j \in DispatchesIn(devLog, "forward") :
           devLog[j].layer = 1 /\ OnMissingBuffer(devLog[j])

\* the dispatches of the log that write delta buffer a
DeltaWrites(log, a) ==
    {j \in 1..Len(log) : /\ log[j].ev = "enqueue"
                         /\ log[j].k \in {"outputError", "backpropagate"}
                         /\ log[j].a = a}

\* the weights of the layer before layer i once the update of layer i has
\* run on the delta buffer `delta` and the values buffer `values`
UpdatedWeights(ls, i, delta, values) ==
    LET p == ls[i].in_layer
        cols == ls[i].size - 1
    IN [k \in 1..Len(ls[p].buf_weights) |->
           IF k <= cols * ls[p].size
           THEN UpdateWeightKernel(values, delta, ls[p].buf_weights[k],
                                   ((k - 1) \div cols) + 1, ((k - 1) % cols) + 1)
           ELSE ls[p].buf_weights[k]]

\* C21: in a training iteration the update of layer i (second to last) is
\* handed delta buffer i, which exactly one dispatch of this iteration wrote
\* before it, for layer i: the output error when i is the last layer, the
\* backpropagation of layer i otherwise; the weights it leaves are those
\* computed from that buffer and from the values buffer of layer i-1.
C21_UpdateConsumesOwnFreshDelta ==
    /\ [](call.op = "train" =>
             \A j \in DispatchesIn(devLog, "updateWeights") :
                 LET i == devLog[j].layer
                     w == {x \in DeltaWrites(devLog, i) : x < j}
                 IN /\ i \in 2..Len(layers)
                    /\ devLog[j].a = i
                    /\ Cardinality(w) = 1
                    /\ \A x \in w :
                           /\ devLog[x].layer = i
                           /\ devLog[x].k = (IF i = Len(layers) THEN "outputError"
                                             ELSE "backpropagate"))
    /\ [][ pc = "t_update" =>
             LET i == t.layer
                 p == layers[i].in_layer
             IN /\ p = i - 1
                /\ layers'[p].buf_weights =
                       UpdatedWeights(layers, i, delta_bufs[i], layers[p].buf_values)
                /\ delta_bufs' = delta_bufs ]_vars

\* C21, its case: on a chain of three layers the update of the second layer
\* has changed the weights of the first with the delta the backpropagation
\* of this iteration wrote for the second layer
C21_Witness ==
    /\ pc = "t_update"
    /\ Len(layers) = 3
    /\ t.layer = 3
    /\ DispatchedLayers(devLog, "updateWeights") = <<2>>
    /\ DispatchedLayers(devLog, "backpropagate") = <<2, 1>>
    /\ delta_bufs[2][1] \in {-1, 1}
    /\ layers[1].buf_weights # layers[1].weights

\* a device buffer that exists and holds something written into it: not the
\* content cl::Buffer(context, flags, size) creates it with
Populated(buf) == \E k \in 1..Len(buf) : buf[k] # Uninit

\* what a step leaves of a layer when it moves its lifecycle forward only:
\* the link, the allocation of the weights and the existence and size of the
\* device buffers
StaysForward(old, new) ==
    /\ old.out_layer # 0 => new.out_layer = old.out_layer
    /\ old.weights # <<>> => Len(new.weights) = Len(old.weights)
    /\ old.buf_values # <<>> => Len(new.buf_values) = Len(old.buf_values)
    /\ old.buf_weights # <<>> => Len(new.buf_weights) = Len(old.buf_weights)

\* the device mirror of a layer is not lost: a buffer that was populated is
\* not replaced by one with the content of a creation
MirrorKept(old, new) ==
    /\ Populated(old.buf_values) => Populated(new.buf_values)
    /\ Populated(old.buf_weights) => Populated(new.buf_weights)

\* C22: no step takes a layer backward in its lifecycle: a layer that is
\* linked stays linked to the same layer, a weight matrix that is allocated
\* is not allocated again (createLayer leaves the weights of the layers it
\* finds allocated as they are), device buffers that exist go on existing
\* with their size, and no operation of the network (createLayer, upload,
\* the setters, the entry of run and of train: the steps taken from idle,
\* the only ones that create buffers) replaces a populated device buffer by
\* a freshly created one.
C22_LifecycleForward ==
    [][ \A i \in 1..Len(layers) :
            /\ Len(layers') >= Len(layers)
            /\ StaysForward(layers[i], layers'[i])
            /\ pc = "idle" => MirrorKept(layers[i], layers'[i])
            /\ (Len(layers') > Len(layers) /\ layers[i].weights # <<>>)
                   => layers'[i].weights = layers[i].weights ]_vars

\* C22, its failing case: upload has populated the value buffer of the last
\* layer of the chain and the chain can still grow; the createLayer that
\* follows links that layer and creates its buffers anew
C22_PopulatedTailBeforeCreateLayer ==
    /\ call.op = "upload"
    /\ nOps = 1
    /\ pc = "idle"
    /\ Len(layers) \in 1..(MaxLayers - 1)
    /\ Populated(layers[mCurrentLayer].buf_values)
    /\ layers[mCurrentLayer].buf_values = layers[mCurrentLayer].values
    /\ ~Populated(createBuffers(layers[mCurrentLayer]).buf_values)

\* C23: every dispatch leaves the bias out on the receiving side and takes it
\* in on the sending side. The forward step of a layer produces the size-1
\* first values of the next layer from all `size` values of its own and
\* leaves the bias slot of the next layer as it was; the output error and the
\* backpropagation of a layer produce its size-1 first deltas and leave the
\* last slot of the delta buffer as it was (the output layer has as many
\* deltas as neurons that are not the bias); the update of a layer produces
\* the previous.size * (size-1) first weights of the layer before it and
\* leaves the rest of the matrix as it was.
C23_DispatchRanges ==
    [][ /\ pc = "run" =>
              LET l == layers[t.layer]
                  o == l.out_layer
                  n == layers[o].size - 1
              IN \A j \in 1..layers[o].size :
                     layers'[o].buf_values[j] =
                         IF j <= n
                         THEN ForwardKernel(l.size, n, l.buf_values, l.buf_weights, j)
                         ELSE layers[o].buf_values[j]
        /\ pc = "t_outerr" =>
              LET N == Len(layers)
                  l == layers[N]
              IN \A j \in 1..l.size :
                     delta_bufs'[N][j] =
                         IF j <= l.size - 1
                         THEN OutputErrorKernel(l.buf_values, training_out_buf', j)
                         ELSE delta_bufs[N][j]
        /\ pc = "t_backprop" =>
              LET i == t.layer
                  l == layers[i]
              IN \A n \in 1..l.size :
                     delta_bufs'[i][n] =
                         IF n <= l.size - 1
                         THEN BackpropagateKernel(l.size, layers[l.out_layer].size,
                                                  l.buf_weights, delta_bufs[i + 1], n)
                         ELSE delta_bufs[i][n]
        /\ pc = "t_update" =>
              LET i == t.layer
                  p == layers[i].in_layer
                  n == layers[p].size * (layers[i].size - 1)
                  w == UpdatedWeights(layers, i, delta_bufs[i], layers[p].buf_values)
              IN \A k \in 1..(layers[p].size * layers[i].size) :
                     layers'[p].buf_weights[k] =
                         IF k <= n THEN w[k] ELSE layers[p].buf_weights[k] ]_vars

\* C23, its case: an iteration on three layers of two neurons is over; the
\* output layer and the second layer have one delta each and the slot behind
\* it was never written, the bias of the output layer is what it was staged
\* as, and of the four weights of the first layer the two behind the
\* range of the update are those staged
C23_Witness ==
    /\ pc = "t_loop"
    /\ t.train >= 1
    /\ Len(layers) = 3
    /\ \A i \in 1..3 : layers[i].size = 2
    /\ Cardinality(DispatchesIn(devLog, "updateWeights")) = 2
    /\ delta_bufs[3][1] # Uninit /\ delta_bufs[3][2] = Uninit
    /\ delta_bufs[2][1] # Uninit /\ delta_bufs[2][2] = Uninit
    /\ layers[3].buf_values[1] # Uninit
    /\ layers[3].buf_values[2] = init_biasValue
    /\ layers[1].buf_weights[1] # layers[1].weights[1]
    /\ layers[1].buf_weights[3] = layers[1].weights[3]
    /\ layers[1].buf_weights[4] = layers[1].weights[4]

\* the value buffers and the weight buffers of the layers of ls, in chain order
ValueBufs(ls) == [k \in 1..Len(ls) |-> ls[k].buf_values]

WeightBufs(ls) == [k \in 1..Len(ls) |-> ls[k].buf_weights]

\* buffers b with the slots 1..n of buffer o taken from c
WithSlots(b, o, n, c) ==
    [k \in 1..Len(b) |-> IF k = o THEN [j \in 1..Len(b[k]) |-> IF j <= n THEN c[k][j] ELSE b[k][j]]
                         ELSE b[k]]

\* every dispatch the log records is followed at once by the finish that
\* waits for it
OneInFlight(log) ==
    \A j \in 1..Len(log) :
        log[j].ev = "enqueue" => (j < Len(log) /\ log[j + 1].ev = "finish")

\* C24: the forward step of a layer changes the slots of its successor's value
\* buffer that are not the bias and no other slot of any value or weight
\* buffer; the update step of a layer changes the weight buffer of its
\* predecessor and no other value or weight buffer; the output error and the
\* backpropagation change no value or weight buffer; and no two dispatches
\* are ever in flight together: the queue is empty between the steps and
\* every dispatch is waited for before the next.
C24_CrossLayerWrites ==
    /\ [](queue = <<>> /\ OneInFlight(devLog))
    /\ [][ /\ pc = "run" =>
                 LET o == layers[t.layer].out_layer IN
                 /\ o = t.layer + 1
                 /\ ValueBufs(layers') =
                        WithSlots(ValueBufs(layers), o, layers[o].size - 1, ValueBufs(layers'))
                 /\ WeightBufs(layers') = WeightBufs(layers)
           /\ pc = "t_update" =>
                 LET p == layers[t.layer].in_layer IN
                 /\ p = t.layer - 1
                 /\ ValueBufs(layers') = ValueBufs(layers)
                 /\ WeightBufs(layers') =
                        WithSlots(WeightBufs(layers), p, Len(layers[p].buf_weights),
                                  WeightBufs(layers'))
           /\ pc \in {"t_outerr", "t_backprop"} =>
                 /\ ValueBufs(layers') = ValueBufs(layers)
                 /\ WeightBufs(layers') = WeightBufs(layers) ]_vars

\* C24, its case: an iteration on three layers is over; the forward steps
\* have written the values of the second and third layer, the update steps
\* the weights of the second and first, and nothing is in flight
C24_Witness ==
    /\ pc = "t_loop"
    /\ t.train >= 1
    /\ Len(layers) = 3
    /\ queue = <<>>
    /\ Cardinality(DispatchesIn(devLog, "forward")) = 2
    /\ Cardinality(DispatchesIn(devLog, "updateWeights")) = 2
    /\ layers[1].buf_weights # layers[1].weights
    /\ layers[2].buf_weights # layers[2].weights
    /\ layers[3].buf_values # layers[3].values
    /\ layers[1].buf_values = layers[1].values

\* Perceptron::getFirstLayer, Perceptron::getLastLayer
getFirstLayer == mFirstLayer

getLastLayer == mCurrentLayer

\* the layers met from `layer` on by getNextLayer, at most `fuel` of them
RECURSIVE NextWalk(_, _, _)
NextWalk(ls, layer, fuel) ==
    IF layer = 0 \/ fuel = 0 THEN <<>>
    ELSE <<layer>> \o NextWalk(ls, ls[layer].out_layer, fuel - 1)

\* C25: the layers form a consistent doubly-linked list whatever was called:
\* no first and no last layer on an empty chain; otherwise the first layer
\* has no previous layer, the last has no next layer, the next layer of a
\* layer has that layer as its previous layer, following next from the first
\* layer meets every layer created once, in the order of creation, and ends
\* on the layer getLastLayer returns.
C25_ChainIsDoublyLinked ==
    IF layers = <<>> THEN getFirstLayer = 0 /\ getLastLayer = 0
    ELSE LET walk == NextWalk(layers, getFirstLayer, Len(layers) + 1) IN
         /\ getFirstLayer \in 1..Len(layers)
         /\ getLastLayer \in 1..Len(layers)
         /\ layers[getFirstLayer].in_layer = 0
         /\ layers[getLastLayer].out_layer = 0
         /\ \A L \in 1..Len(layers) :
                layers[L].out_layer # 0 =>
                    /\ layers[L].out_layer \in 1..Len(layers)
                    /\ layers[layers[L].out_layer].in_layer = L
         /\ walk = [k \in 1..Len(layers) |-> k]
         /\ walk[Len(walk)] = getLastLayer

\* C25, its case: createLayer has just returned for the third time
C25_Witness ==
    /\ call.op = "createLayer"
    /\ pc = "idle"
    /\ Len(layers) = 3
    /\ NextWalk(layers, getFirstLayer, 4) = <<1, 2, 3>>
    /\ layers[3].in_layer = 2
    /\ layers[2].in_layer = 1
    /\ getLastLayer = 3

====
